---- MODULE Spec2Model ----
(***************************************************************************)
(* A model of the active-learning sampling loop of ALmoMD:                 *)
(*   libs/lib_cont_nvtlangevin_temp.py  cont_NVTLangevin_temp              *)
(*   libs/lib_criteria.py               eval_uncert, get_criteria_prob,    *)
(*                                      get_criteria_uncert                *)
(*                                                                         *)
(* Three specifications share the module:                                  *)
(*   Spec      the stepping loop of cont_NVTLangevin_temp and its files    *)
(*   SpecProb  get_criteria_prob applied to bounded inputs                 *)
(*   SpecEval  eval_uncert applied to bounded inputs                       *)
(*                                                                         *)
(* cont_NVTLangevin_temp calls get_criteria, eval_uncert and               *)
(* get_criteria_prob with other argument lists than lib_criteria.py        *)
(* declares; the loop is modelled with what it uses of them: the dispatch  *)
(* of eval_uncert on al_type and an acceptance probability in [0,1].       *)
(*                                                                         *)
(* Real numbers are modelled exactly on grids: a probability is a record   *)
(* [num, den] of integers, an uncertainty is an integer number of          *)
(* hundredths.                                                             *)
(***************************************************************************)
EXTENDS Integers, Sequences, FiniteSets, TLC

(***************************************************************************)
(* Bounds of the model.                                                    *)
(***************************************************************************)
MaxTotal == 2
MaxPeriod == 2
MaxInterval == 2
MaxSteps == 6
MaxStart == 2
ProbGrid == 2
MaxModel == 3
MaxNstep == 2
MaxRanks == 2
MaxEns == 3
MaxAtoms == 2
MaxAppends == 3
MaxIdx == 2
MaxRows == 2
MaxRestarts == 2

VARIABLES
    pc,             \* position of cont_NVTLangevin_temp
    inputs,         \* the fields of `inputs` the loop reads
    MD_index,       \* accepted-count
    MD_step_index,  \* integration step-count
    MD_index0,      \* the MD_index the function was called with
    rows0,          \* rows of the uncertainty table on entry
    nsteps,         \* integration steps executed by this call (line 253)
    tempTraj,       \* records in TEMPORARY/temp-*.traj (0: no such file)
    logLines,       \* data lines in TEMPORARY/temp-*.log
    accTraj,        \* records in TRAJ/traj-*.traj
    uncertTable,    \* rows of UNCERT/uncertainty-*.txt
    criteria,       \* the acceptance probability of the last logging step
    calls,          \* calls made by this call: eval_uncert, get_criteria_prob, random
    draw,           \* the uniform draw of the last logging step
    accept,         \* the local `accept` of the last iteration
    prob,           \* one call of get_criteria_prob
    eu,             \* one call of eval_uncert
    gf,             \* one call of get_forces_temp
    heat,           \* the local heating factor of two steps
    kick,           \* the coefficients and random kicks of one step
    un,             \* two calls of get_criteria_uncert
    mpi,            \* the ranks of one eval_uncert_E / eval_uncert_F
    wr,             \* the processes that append to the output files
    cp,             \* one call of check_progress
    run             \* a run of the loop across interruptions and restarts

loopVars == <<pc, inputs, MD_index, MD_step_index, MD_index0, rows0, nsteps,
              tempTraj, logLines, accTraj, uncertTable, criteria, draw, accept,
              calls>>
auxVars == <<gf, heat, kick, un, mpi, wr, cp, run>>
vars == <<pc, inputs, MD_index, MD_step_index, MD_index0, rows0, nsteps,
          tempTraj, logLines, accTraj, uncertTable, criteria, draw, accept,
          calls, prob, eu, gf, heat, kick, un, mpi, wr, cp, run>>

(***************************************************************************)
(* Mode tags.                                                              *)
(***************************************************************************)
\* the tags eval_uncert dispatches on (lib_criteria.py 46, 60, 74, 90)
EvalModes == {"energy", "force", "force_max", "EandFmax", "EorFmax"}

\* the tags for which the loop assigns temp_ratio (lines 192, 198)
HeatModes == {"force_max", "energy_max"}

OtherTags == {"energy_max", "random", "none", ""}

CalcTypes == {"active", "period", "random"}

\* A row of the uncertainty table: the columns Counting and Acceptance
Row(counting, tag) == [Counting |-> counting, Acceptance |-> tag]

NoProb == [pc |-> "idle"]
NoEval == [pc |-> "idle"]

\* no call of eval_uncert, get_criteria_prob or random.random made yet
NoCalls == [eval_uncert |-> 0, get_criteria_prob |-> 0, random |-> 0]

\* no call of the function the variable stands for is in progress
Idle == [pc |-> "idle"]

(***************************************************************************)
(* eval_uncert, eval_uncert_E, eval_uncert_F (lib_criteria.py 10-242)      *)
(***************************************************************************)
\* the marker of a quantity the mode does not compute (lines 54, 66)
Dashes == "----          "

\* the message of line 109
SetAlTypeMsg == "You need to set al_type."

\* mutant of EvalBranch: a tag no branch names falls back to the force branch
EvalBranch_default(al_type) ==
    IF al_type = "energy" THEN "E"
    ELSE IF al_type = "force" THEN "F"
    ELSE IF al_type = "force_max" THEN "Fmax"
    ELSE IF al_type = "EandFmax" \/ al_type = "EorFmax" THEN "EFmax"
    ELSE "F"

\* lines 46, 60, 74, 90, 108: the branch eval_uncert takes
EvalBranch(al_type) ==
    IF al_type = "energy" THEN "E"
    ELSE IF al_type = "force" THEN "F"
    ELSE IF al_type = "force_max" THEN "Fmax"
    ELSE IF al_type = "EandFmax" \/ al_type = "EorFmax" THEN "EFmax"
    ELSE "exit"

\* mutant of OwnedIndices: a rank also takes the indices of the ranks below it
OwnedIndices_le(nmodel, nstep, size, rank) ==
    {i \in 0..(nmodel * nstep - 1) : i % size <= rank}

\* lines 156-158, 221-223: the predictor indices a rank evaluates
OwnedIndices(nmodel, nstep, size, rank) ==
    {i \in 0..(nmodel * nstep - 1) : i % size = rank}

\* lines 47, 91: predictor evaluations made by eval_uncert_E in the branch
EvalsE(branch, owned) ==
    IF branch \in {"E", "EFmax"} THEN Cardinality(owned) ELSE 0

\* lines 61, 75, 94: predictor evaluations made by eval_uncert_F in the branch
EvalsF(branch, owned) ==
    IF branch \in {"F", "Fmax", "EFmax"} THEN Cardinality(owned) ELSE 0

\* lines 51-57, 65-71, 79-87, 98-106: which entries of the returned tuple are
\* numbers and which the marker
EvalResult(branch) ==
    [ UncertAbs_E |-> IF branch \in {"E", "EFmax"} THEN "number" ELSE Dashes,
      UncertRel_E |-> IF branch \in {"E", "EFmax"} THEN "number" ELSE Dashes,
      UncertAbs_F |-> IF branch = "E" THEN Dashes
                      ELSE IF branch = "F" THEN "average" ELSE "max",
      UncertRel_F |-> IF branch = "E" THEN Dashes
                      ELSE IF branch = "F" THEN "average" ELSE "max",
      Etot_step_avg |-> "number" ]

(***************************************************************************)
(* cont_NVTLangevin_temp                                                   *)
(***************************************************************************)
\* Tables a previous call may have left behind (rows are only ever written
\* by line 291-306, so Counting rises by one exactly on an Accepted row).
PriorTables ==
    { <<>>,
      <<Row(1, "Accepted")>>,
      <<Row(0, "Vetoed"), Row(1, "Accepted")>> }

InputsSet ==
    [ ntotal : 1..MaxTotal,
      nperiod : 1..MaxPeriod,
      loginterval : 1..MaxInterval,
      calc_type : CalcTypes,
      al_type : {"force_max", "energy_max", "energy", "EorFmax"} ]

\* The call: the arguments and the files found on disk.
Init ==
    /\ pc = "entry"
    /\ inputs \in InputsSet
    /\ MD_index \in 0..(MaxTotal + 1)
    /\ MD_index0 = MD_index
    /\ MD_step_index \in 0..MaxStart
    /\ tempTraj \in 0..MaxStart
    /\ logLines = tempTraj
    /\ accTraj = MD_index
    /\ uncertTable \in PriorTables
    /\ rows0 = Len(uncertTable)
    /\ nsteps = 0
    /\ criteria = 0
    /\ draw = 0
    /\ accept = "--"
    /\ calls = NoCalls
    /\ prob = NoProb
    /\ eu = NoEval
    /\ gf = Idle /\ heat = Idle /\ kick = Idle
    /\ un = Idle /\ mpi = Idle /\ wr = Idle
    /\ cp = Idle /\ run = Idle

\* mutant of LoopCond: the accepted-count compared with <= (off by one)
LoopCond_le ==
    \/ MD_index <= inputs.ntotal
    \/ /\ inputs.calc_type = "period"
       /\ MD_step_index < inputs.nperiod * inputs.loginterval

\* mutant of LoopCond: the period clause applied to every calc_type
LoopCond_anytype ==
    \/ MD_index < inputs.ntotal
    \/ MD_step_index < inputs.nperiod * inputs.loginterval

\* line 159: the condition of the while loop
LoopCond ==
    \/ MD_index < inputs.ntotal
    \/ /\ inputs.calc_type = "period"
       /\ MD_step_index < inputs.nperiod * inputs.loginterval

\* mutant of IsLogStep: every step is a logging step
IsLogStep_every == TRUE

\* line 271: the logging cadence
IsLogStep == (MD_step_index + 1) % inputs.loginterval = 0

\* lines 275-276: eval_uncert is called
CallEval(cs) == [cs EXCEPT !.eval_uncert = @ + 1]

\* lines 275-283: eval_uncert, get_criteria_prob and random.random are called
CallAll(cs) ==
    [eval_uncert |-> cs.eval_uncert + 1,
     get_criteria_prob |-> cs.get_criteria_prob + 1,
     random |-> cs.random + 1]

\* mutant of NextStepIndex: a vetoed step is not counted
NextStepIndex_veto(i, tag) == IF tag = "Vetoed" THEN i ELSE i + 1

\* line 341: the step-count after an iteration whose tag is `tag`
NextStepIndex(i, tag) == i + 1

\* mutant of NextRolling: the rolling files written in the accepted branch
NextRolling_acc(n, tag) == IF tag = "Accepted" THEN n + 1 ELSE n

\* lines 315-339: one line to the rolling log and one record to the rolling
\* trajectory, after the if/else of the acceptance check
NextRolling(n, tag) == n + 1

\* mutant of Accepts: the draw compared with <=
Accepts_le(d, c) == d <= c

\* line 283: random.random() < criteria, both in units of 1/ProbGrid
Accepts(d, c) == d < c

\* lines 284-288: the accepted-count after the acceptance check
NextIndex(idx, d, c) == IF Accepts(d, c) THEN idx + 1 ELSE idx

\* lines 284, 288: the tag written to the Acceptance column
AcceptTag(d, c) == IF Accepts(d, c) THEN "Accepted" ELSE "Vetoed"

\* mutant of TableRow: Counting written before the increment of line 285
TableRow_old(idx, d, c) == Row(idx, AcceptTag(d, c))

\* lines 291-306: the row appended to the uncertainty table
TableRow(idx, d, c) == Row(NextIndex(idx, d, c), AcceptTag(d, c))

\* lines 83-151: the warm start and the opening of the files
Enter ==
    /\ pc = "entry"
    /\ LET step == IF tempTraj > 0 THEN tempTraj ELSE MD_step_index
       IN  /\ MD_step_index' = step
           /\ IF step = 0
              THEN /\ tempTraj' = 1
                   /\ logLines' = 1
              ELSE UNCHANGED <<tempTraj, logLines>>
    /\ pc' = "loop"
    /\ UNCHANGED <<inputs, MD_index, MD_index0, rows0, nsteps, accTraj,
                   uncertTable, criteria, draw, accept, calls, prob, eu,
                   auxVars>>

\* lines 192-205: temp_ratio is assigned only for force_max and energy_max;
\* with any other al_type line 205 reads an unbound local and the call ends
\* with an exception before the integration step.
StepUnbound ==
    /\ pc = "loop"
    /\ LoopCond
    /\ MD_step_index < MaxSteps
    /\ inputs.al_type \notin HeatModes
    /\ pc' = "crashed"
    /\ UNCHANGED <<inputs, MD_index, MD_step_index, MD_index0, rows0, nsteps,
                   tempTraj, logLines, accTraj, uncertTable, criteria, draw,
                   accept, calls, prob, eu, auxVars>>

\* lines 159-270, 341: an iteration off the logging cadence
StepPlain ==
    /\ pc = "loop"
    /\ LoopCond
    /\ MD_step_index < MaxSteps
    /\ inputs.al_type \in HeatModes
    /\ ~IsLogStep
    /\ accept' = "--"
    /\ nsteps' = nsteps + 1
    /\ MD_step_index' = NextStepIndex(MD_step_index, "--")
    /\ UNCHANGED <<pc, inputs, MD_index, MD_index0, rows0, tempTraj, logLines,
                   accTraj, uncertTable, criteria, draw, calls, prob, eu,
                   auxVars>>

\* lines 271-276 with lib_criteria.py 108-109: eval_uncert ends the process
\* for a tag it does not dispatch on; the integration step has been made.
StepExit ==
    /\ pc = "loop"
    /\ LoopCond
    /\ MD_step_index < MaxSteps
    /\ inputs.al_type \in HeatModes
    /\ IsLogStep
    /\ EvalBranch(inputs.al_type) = "exit"
    /\ accept' = "--"
    /\ nsteps' = nsteps + 1
    /\ calls' = CallEval(calls)
    /\ pc' = "exited"
    /\ UNCHANGED <<inputs, MD_index, MD_step_index, MD_index0, rows0, tempTraj,
                   logLines, accTraj, uncertTable, criteria, draw, prob, eu, auxVars>>

\* lines 159-341: an iteration on the logging cadence
StepLog ==
    /\ pc = "loop"
    /\ LoopCond
    /\ MD_step_index < MaxSteps
    /\ inputs.al_type \in HeatModes
    /\ IsLogStep
    /\ EvalBranch(inputs.al_type) # "exit"
    /\ \E c \in 0..ProbGrid, d \in 0..(ProbGrid - 1) :
          /\ criteria' = c
          /\ draw' = d
          /\ accept' = AcceptTag(d, c)
          /\ MD_index' = NextIndex(MD_index, d, c)
          /\ accTraj' = IF Accepts(d, c) THEN accTraj + 1 ELSE accTraj
          /\ uncertTable' = Append(uncertTable, TableRow(MD_index, d, c))
          /\ logLines' = NextRolling(logLines, AcceptTag(d, c))
          /\ tempTraj' = NextRolling(tempTraj, AcceptTag(d, c))
          /\ MD_step_index' = NextStepIndex(MD_step_index, AcceptTag(d, c))
    /\ calls' = CallAll(calls)
    /\ nsteps' = nsteps + 1
    /\ UNCHANGED <<pc, inputs, MD_index0, rows0, prob, eu, auxVars>>

\* line 159: the loop condition is false and the function returns
Return ==
    /\ pc = "loop"
    /\ ~LoopCond
    /\ pc' = "done"
    /\ UNCHANGED <<inputs, MD_index, MD_step_index, MD_index0, rows0, nsteps,
                   tempTraj, logLines, accTraj, uncertTable, criteria, draw,
                   accept, calls, prob, eu, auxVars>>

Next ==
    \/ Enter
    \/ StepUnbound
    \/ StepPlain
    \/ StepExit
    \/ StepLog
    \/ Return

Spec == Init /\ [][Next]_vars

\* Every variable of the stepping loop at rest: no call of
\* cont_NVTLangevin_temp is in progress.
LoopIdle ==
    /\ pc = "idle"
    /\ inputs = [ntotal |-> 1, nperiod |-> 1, loginterval |-> 1,
                 calc_type |-> "active", al_type |-> "force_max"]
    /\ MD_index = 0
    /\ MD_index0 = 0
    /\ MD_step_index = 0
    /\ rows0 = 0
    /\ nsteps = 0
    /\ tempTraj = 0
    /\ logLines = 0
    /\ accTraj = 0
    /\ uncertTable = <<>>
    /\ calls = NoCalls
    /\ criteria = 0
    /\ draw = 0
    /\ accept = "--"

(***************************************************************************)
(* get_criteria_prob and get_criteria_uncert (lib_criteria.py 436-619)     *)
(*                                                                         *)
(* A sub-score is an integer number of thousandths; the canonical term and *)
(* the returned probability are exact fractions [num, den].                *)
(***************************************************************************)
\* thousandths in 1: the value of the defaults of lines 507-508
Scale == 10 * 10 * 10

\* lines 600-617: 0.5 * (1 + erf((t - 0.2661) / sqrt(0.2))) in thousandths,
\* for t = (Uncert - avg) / std a whole number: 4e-13, 3e-5, 0.20004,
\* 0.98985, 0.99999998 at t = -2 .. 2
Cdf(t) ==
    IF t <= -1 THEN 0
    ELSE IF t = 0 THEN 200
    ELSE IF t = 1 THEN 990
    ELSE Scale

\* the value standing for the unbound local criteria_Uncert of line 619
Unbound == -1

\* mutant of get_criteria_uncert: each kind reads the other kind's triple
get_criteria_uncert_swapped(uncert_type, UncertAbs, avgAbs, stdAbs, UncertRel, avgRel, stdRel) ==
    IF uncert_type = "relative"
    THEN Cdf((UncertAbs - avgAbs) \div stdAbs)
    ELSE IF uncert_type = "absolute"
    THEN Cdf((UncertRel - avgRel) \div stdRel)
    ELSE Unbound

\* lines 565-619
get_criteria_uncert(uncert_type, UncertAbs, avgAbs, stdAbs, UncertRel, avgRel, stdRel) ==
    IF uncert_type = "relative"
    THEN Cdf((UncertRel - avgRel) \div stdRel)
    ELSE IF uncert_type = "absolute"
    THEN Cdf((UncertAbs - avgAbs) \div stdAbs)
    ELSE Unbound

\* line 526: the bounds of the band, in hundredths
BandLow == 5
BandHigh == 20

\* mutant of ForceBand: the bounds of the band included
ForceBand_incl(u) == IF BandLow <= u /\ u <= BandHigh THEN Scale ELSE 0

\* lines 526, 533: 1 if 0.05 < UncertAbs_F < 0.20 else 0
ForceBand(u) == IF BandLow < u /\ u < BandHigh THEN Scale ELSE 0

\* lines 507, 511-516, 527-532: the energy sub-score
criteria_Uncert_E(a) ==
    IF a.al_type \in {"energy", "EandFmax", "EorFmax"}
    THEN get_criteria_uncert(a.uncert_type,
             a.UncertAbs_E, a.criteria_UncertAbs_E_avg, a.criteria_UncertAbs_E_std,
             a.UncertRel_E, a.criteria_UncertRel_E_avg, a.criteria_UncertRel_E_std)
    ELSE Scale

\* lines 508, 517-526, 533: the force sub-score
criteria_Uncert_F(a) ==
    IF a.al_type = "force"
    THEN get_criteria_uncert(a.uncert_type,
             a.UncertAbs_F, a.criteria_UncertAbs_F_avg, a.criteria_UncertAbs_F_std,
             a.UncertRel_F, a.criteria_UncertRel_F_avg, a.criteria_UncertRel_F_std)
    ELSE IF a.al_type \in {"force_max", "EandFmax", "EorFmax"}
    THEN ForceBand(a.UncertAbs_F)
    ELSE Scale

\* line 535: the message printed for a tag none of the branches takes
NeedsAlTypeMsg(a) ==
    a.al_type \notin {"energy", "force", "force_max", "EandFmax", "EorFmax"}

RECURSIVE Pow5(_)
Pow5(n) == IF n = 0 THEN 1 ELSE 5 * Pow5(n - 1)

\* lines 538-552: Prob / Prob_upper_limit = exp(-(Etot - avg) / (N kB T)) and
\* Prob_lower_limit / Prob_upper_limit = exp(-std / (N kB T)), so that
\* criteria_Prob = 0.2 ^ ((Etot - avg) / std), here for a whole quotient
CanonRaw(Etot, avg, std) ==
    LET k == (Etot - avg) \div std
    IN  IF k <= 0 THEN [num |-> Pow5(-k), den |-> 1]
                  ELSE [num |-> 1, den |-> Pow5(k)]

\* mutant of CapProb: the cap of line 554 left out
CapProb_none(q) == q

\* line 554: if criteria_Prob > 1: criteria_Prob = 1
CapProb(q) == IF q.num > q.den THEN [num |-> q.den, den |-> q.den] ELSE q

\* mutant of Combine: EandFmax combined like EorFmax
Combine_both(al_type, E, F, P) ==
    IF al_type \in {"EorFmax", "EandFmax"}
    THEN [num |-> Scale * Scale * P.den - (Scale - E) * (Scale - F) * P.num,
          den |-> Scale * Scale * P.den]
    ELSE [num |-> E * F * P.num, den |-> Scale * Scale * P.den]

\* lines 558-561: the three parts combined
Combine(al_type, E, F, P) ==
    IF al_type = "EorFmax"
    THEN [num |-> Scale * Scale * P.den - (Scale - E) * (Scale - F) * P.num,
          den |-> Scale * Scale * P.den]
    ELSE [num |-> E * F * P.num, den |-> Scale * Scale * P.den]

\* the arguments of a call (lines 436-443; kB, NumAtoms and temperature are
\* positive and cancel in criteria_Prob)
ProbArgs ==
    [ al_type : EvalModes \cup {"energy_max", "none"},
      uncert_type : {"absolute", "relative", "none"},
      Etot_step : {-2, 0, 2, 4},
      criteria_Etot_step_avg : {0},
      criteria_Etot_step_std : {1, 2},
      UncertAbs_E : {1, 2, 3},
      criteria_UncertAbs_E_avg : {2},
      criteria_UncertAbs_E_std : {1},
      UncertRel_E : {2, 4},
      criteria_UncertRel_E_avg : {2},
      criteria_UncertRel_E_std : {1},
      UncertAbs_F : {0, 5, 10, 15, 20, 25},
      criteria_UncertAbs_F_avg : {5, 10},
      criteria_UncertAbs_F_std : {1, 5},
      UncertRel_F : {10, 20},
      criteria_UncertRel_F_avg : {10},
      criteria_UncertRel_F_std : {10} ]

NoFrac == [num |-> 0, den |-> 1]

InitProb ==
    /\ LoopIdle
    /\ eu = NoEval
    /\ gf = Idle /\ heat = Idle /\ kick = Idle
    /\ un = Idle /\ mpi = Idle /\ wr = Idle
    /\ cp = Idle /\ run = Idle
    /\ \E a \in ProbArgs :
          prob = [pc |-> "called", a |-> a, criteria_Uncert_E |-> 0,
                  criteria_Uncert_F |-> 0, criteria_Prob |-> NoFrac,
                  diag |-> FALSE, ret |-> NoFrac]

\* lines 506-561: the call returns the combined probability
ProbReturn ==
    /\ prob.pc = "called"
    /\ LET a == prob.a
           E == criteria_Uncert_E(a)
           F == criteria_Uncert_F(a)
           P == CapProb(CanonRaw(a.Etot_step, a.criteria_Etot_step_avg,
                                 a.criteria_Etot_step_std))
       IN  /\ E # Unbound
           /\ F # Unbound
           /\ prob' = [prob EXCEPT !.pc = "returned",
                                   !.criteria_Uncert_E = E,
                                   !.criteria_Uncert_F = F,
                                   !.criteria_Prob = P,
                                   !.diag = NeedsAlTypeMsg(a),
                                   !.ret = Combine(a.al_type, E, F, P)]
    /\ UNCHANGED <<loopVars, eu, auxVars>>

\* line 619: with an uncert_type that is neither 'relative' nor 'absolute'
\* get_criteria_uncert reads its unbound local and the call ends with an
\* exception
ProbRaise ==
    /\ prob.pc = "called"
    /\ \/ criteria_Uncert_E(prob.a) = Unbound
       \/ criteria_Uncert_F(prob.a) = Unbound
    /\ prob' = [prob EXCEPT !.pc = "raised"]
    /\ UNCHANGED <<loopVars, eu, auxVars>>

NextProb ==
    \/ ProbReturn
    \/ ProbRaise

SpecProb == InitProb /\ [][NextProb]_vars

(***************************************************************************)
(* Calls of eval_uncert                                                    *)
(***************************************************************************)
NoResult == [returned |-> FALSE]

EvalCalls ==
    { [al_type |-> m, nmodel |-> nm, nstep |-> ns, size |-> sz, rank |-> rk] :
        m \in EvalModes \cup OtherTags, nm \in 1..MaxModel, ns \in 1..MaxNstep,
        sz \in 1..MaxRanks, rk \in 0..(MaxRanks - 1) }

InitEval ==
    /\ LoopIdle
    /\ prob = NoProb
    /\ gf = Idle /\ heat = Idle /\ kick = Idle
    /\ un = Idle /\ mpi = Idle /\ wr = Idle
    /\ cp = Idle /\ run = Idle
    /\ \E c \in EvalCalls :
          /\ c.rank < c.size
          /\ eu = [pc |-> "called", c |-> c, evalsE |-> 0, evalsF |-> 0,
                   diag |-> "", ret |-> NoResult]

\* lines 46-106: one of the four branches is taken and the tuple returned
EvalReturn ==
    /\ eu.pc = "called"
    /\ LET b == EvalBranch(eu.c.al_type)
           own == OwnedIndices(eu.c.nmodel, eu.c.nstep, eu.c.size, eu.c.rank)
       IN  /\ b # "exit"
           /\ eu' = [eu EXCEPT !.pc = "returned",
                               !.evalsE = EvalsE(b, own),
                               !.evalsF = EvalsF(b, own),
                               !.ret = EvalResult(b)]
    /\ UNCHANGED <<loopVars, prob, auxVars>>

\* lines 108-109: sys.exit with the message
EvalExit ==
    /\ eu.pc = "called"
    /\ EvalBranch(eu.c.al_type) = "exit"
    /\ eu' = [eu EXCEPT !.pc = "exited", !.diag = SetAlTypeMsg]
    /\ UNCHANGED <<loopVars, prob, auxVars>>

NextEval ==
    \/ EvalReturn
    \/ EvalExit

SpecEval == InitEval /\ [][NextEval]_vars

(***************************************************************************)
(* get_forces_temp (lib_cont_nvtlangevin_temp.py 345-417)                  *)
(*                                                                         *)
(* A force is a vector of three integers. A mean over n predictors is kept *)
(* as its n-fold (the sum) with the divisor n; a norm or a root is kept as *)
(* the fraction under the root.                                            *)
(***************************************************************************)
Comps == 1..3

\* the forces a predictor may return for an atom
ForceSet == { <<1, 0, 0>>, <<-1, 0, 0>>, <<0, 2, 1>> }

RECURSIVE SumTo(_, _)
\* f[0] + ... + f[n-1]
SumTo(f, n) == IF n = 0 THEN 0 ELSE f[n - 1] + SumTo(f, n - 1)

\* the predictors the double loop of lines 377-391 reads: zndex = 0 .. n-1
LoopIndices(nmodel, nstep) == 0..(nmodel * nstep - 1)

\* line 398: n * F_step_avg[a][c], the sum over the predictors
ForceSum(F, n, a, c) == SumTo([k \in 0..(n - 1) |-> F[k][a][c]], n)

\* line 398: F_step_avg for atom a
F_step_avg(F, n, a) == [c \in Comps |-> [num |-> ForceSum(F, n, a, c), den |-> n]]

\* line 399: n^2 * F_step_norm[k][a]^2, the squared Euclidean norm of the
\* deviation of predictor k from the mean at atom a
NormSq(F, n, k, a) ==
    LET d == [c \in Comps |-> n * F[k][a][c] - ForceSum(F, n, a, c)]
    IN  d[1] * d[1] + d[2] * d[2] + d[3] * d[3]

\* mutant of F_step_norm_std: the sample deviation (divisor n - 1)
F_step_norm_std_ddof(F, n, a) ==
    [under_root |->
        [num |-> SumTo([k \in 0..(n - 1) |-> NormSq(F, n, k, a)], n),
         den |-> n * n * (IF n > 1 THEN n - 1 ELSE 1)]]

\* line 400: sqrt(average(F_step_norm ** 2, axis=0)) for atom a
F_step_norm_std(F, n, a) ==
    [under_root |->
        [num |-> SumTo([k \in 0..(n - 1) |-> NormSq(F, n, k, a)], n),
         den |-> n * n * n]]

\* the largest table of forces (predictors times atoms) a call is given
MaxSize == MaxEns + MaxAtoms

\* the calls: calculator is a list of ncalc predictors, one fewer or one
\* more than the double loop reads, or exactly as many
ForceCalls ==
    UNION { { [al_type |-> m, is_list |-> TRUE, nmodel |-> s[1], nstep |-> s[2],
               ncalc |-> nc, natoms |-> s[3], F |-> F] :
                m \in {"force_max", "energy_max"},
                nc \in {s[1] * s[2] - 1, s[1] * s[2], s[1] * s[2] + 1},
                F \in [LoopIndices(s[1], s[2]) -> [1..s[3] -> ForceSet]] } :
            s \in { t \in (1..MaxEns) \X (1..MaxEns) \X (1..MaxAtoms) :
                        /\ t[1] * t[2] <= MaxEns
                        /\ t[1] * t[2] * t[3] <= MaxSize } }

\* the same call with a single calculator in place of the list
SingleCalls ==
    { [al_type |-> m, is_list |-> FALSE, nmodel |-> 1, nstep |-> 1,
       ncalc |-> 1, natoms |-> 1,
       F |-> [k \in {0} |-> [a \in {1} |-> v]]] :
        m \in {"force_max", "energy_max"}, v \in ForceSet }

InitForces ==
    /\ LoopIdle
    /\ prob = NoProb /\ eu = NoEval
    /\ heat = Idle /\ kick = Idle /\ un = Idle /\ mpi = Idle /\ wr = Idle
    /\ cp = Idle /\ run = Idle
    /\ \E c \in ForceCalls \cup SingleCalls :
          gf = [pc |-> "called", c |-> c, evaluated |-> {},
                err |-> "", ret |-> [returned |-> FALSE]]

\* lines 372-417 with a list that holds every index the double loop reads:
\* the mean force and the dispersion are returned
ForcesReturn ==
    /\ gf.pc = "called"
    /\ gf.c.is_list
    /\ LET n == gf.c.nmodel * gf.c.nstep
       IN  /\ gf.c.ncalc >= n
           /\ gf' = [gf EXCEPT
                  !.pc = "returned",
                  !.evaluated = LoopIndices(gf.c.nmodel, gf.c.nstep),
                  !.ret = [returned |-> TRUE,
                           force_avg |->
                               [a \in 1..gf.c.natoms |-> F_step_avg(gf.c.F, n, a)],
                           step_std |->
                               IF gf.c.al_type = "energy_max"
                               THEN "E_step_std"
                               ELSE [a \in 1..gf.c.natoms |->
                                       F_step_norm_std(gf.c.F, n, a)]]]
    /\ UNCHANGED <<loopVars, prob, eu, heat, kick, un, mpi, wr, cp, run>>

\* line 380: calculator[zndex] with zndex past the end of the list
ForcesIndexError ==
    /\ gf.pc = "called"
    /\ gf.c.is_list
    /\ gf.c.ncalc < gf.c.nmodel * gf.c.nstep
    /\ gf' = [gf EXCEPT !.pc = "raised",
                        !.evaluated = 0..(gf.c.ncalc - 1),
                        !.err = "IndexError"]
    /\ UNCHANGED <<loopVars, prob, eu, heat, kick, un, mpi, wr, cp, run>>

\* lines 408-417: with a single calculator neither E_step_std nor
\* F_step_norm_std is bound when the return statement reads it
ForcesUnbound ==
    /\ gf.pc = "called"
    /\ ~gf.c.is_list
    /\ gf' = [gf EXCEPT !.pc = "raised", !.err = "UnboundLocalError"]
    /\ UNCHANGED <<loopVars, prob, eu, heat, kick, un, mpi, wr, cp, run>>

\* lib_criteria.py 233-234: n^2 times the square of F_step_norm[k][c],
\* np.linalg.norm(F_step_filtered - F_step_avg, axis=1): on the array of
\* shape (predictors, atoms, 3) axis 1 runs over the atoms
uncert_NormSq(F, n, natoms, k, c) ==
    SumTo([a \in 0..(natoms - 1) |->
              (n * F[k][a + 1][c] - ForceSum(F, n, a + 1, c))
            * (n * F[k][a + 1][c] - ForceSum(F, n, a + 1, c))], natoms)

\* lib_criteria.py 235: sqrt(average(F_step_norm ** 2, axis=0)), one value
\* for each column of F_step_norm
uncert_F_step_norm_std(F, n, natoms) ==
    [c \in Comps |->
        [under_root |->
            [num |-> SumTo([k \in 0..(n - 1) |-> uncert_NormSq(F, n, natoms, k, c)], n),
             den |-> n * n * n]]]

\* lib_criteria.py 236: np.linalg.norm(F_step_avg, axis=0): on the array of
\* shape (atoms, 3) axis 0 runs over the atoms
uncert_F_step_norm_avg(F, n, natoms) ==
    [c \in Comps |->
        [under_root |->
            [num |-> SumTo([a \in 0..(natoms - 1) |->
                              ForceSum(F, n, a + 1, c) * ForceSum(F, n, a + 1, c)],
                           natoms),
             den |-> n * n]]]

\* lib_criteria.py 231-242 on the outputs get_forces_temp has just used:
\* eval_uncert_F of the same predictors on the same configuration
ForcesEvalF ==
    /\ gf.pc = "returned"
    /\ gf.c.al_type # "energy_max"
    /\ LET n == gf.c.nmodel * gf.c.nstep
       IN  gf' = [pc |-> "evaluated", c |-> gf.c, evaluated |-> gf.evaluated,
                  err |-> gf.err, ret |-> gf.ret,
                  uncert |-> [F_step_norm_avg |->
                                  uncert_F_step_norm_avg(gf.c.F, n, gf.c.natoms),
                              F_step_norm_std |->
                                  uncert_F_step_norm_std(gf.c.F, n, gf.c.natoms)]]
    /\ UNCHANGED <<loopVars, prob, eu, heat, kick, un, mpi, wr, cp, run>>

NextForces ==
    \/ ForcesReturn
    \/ ForcesIndexError
    \/ ForcesUnbound
    \/ ForcesEvalF

SpecForces == InitForces /\ [][NextForces]_vars

(***************************************************************************)
(* The local heating of a step (lib_cont_nvtlangevin_temp.py 185-213)      *)
(*                                                                         *)
(* Dispersions and baselines are integers on one grid; the heating factor  *)
(* is kept in thousandths (Scale). A coefficient row is kept as the        *)
(* sigma^2 it is computed from, since c3, c4 and c5 are fixed multiples of *)
(* sigma for a given timestep and friction.                                *)
(***************************************************************************)
\* exp(-x^2/2) in thousandths, rounded, for x = h/2
ExpHalfSq(h) ==
    CASE h = 0 -> Scale
      [] h = 1 -> 882
      [] h = 2 -> 607
      [] h = 3 -> 325
      [] h = 4 -> 135
      [] h = 5 -> 44
      [] h = 6 -> 11
      [] h = 7 -> 2
      [] OTHER -> 0

\* lines 193, 199: twice uncert_ratio (the baselines below keep it whole)
uncert_ratio2(d, avg, std) == (2 * (d - avg)) \div std

\* mutant of temp_ratio: the Gaussian on both sides of the baseline mean
temp_ratio_nobranch(d, avg, std) ==
    LET h == uncert_ratio2(d, avg, std)
    IN  ExpHalfSq(IF h < 0 THEN -h ELSE h)

\* lines 192-203: 1.0 below the baseline mean, exp(-uncert_ratio^2/2) from it on
temp_ratio(d, avg, std) ==
    IF d - avg < 0 THEN Scale ELSE ExpHalfSq(uncert_ratio2(d, avg, std))

\* line 185 and line 206: sigma^2 = 2 * T * friction / mass, T in thousandths
SigmaSq(Tk, friction, mass) == [num |-> 2 * Tk * friction, den |-> mass * Scale]

\* lines 185-190: the rows of c3, c4, c5 from the bath temperature
BathRows(T, friction, masses) ==
    [i \in DOMAIN masses |-> SigmaSq(T * Scale, friction, masses[i])]

\* line 206: the local temperature, in thousandths
LocalT(T, ratio, boost) == T * Scale + ratio * boost

\* mutant of Override: the local temperature in every row
Override_all(rows, idx, T, friction, masses, ratio, boost) ==
    [i \in DOMAIN rows |-> SigmaSq(LocalT(T, ratio, boost), friction, masses[i])]

\* lines 206-213: c3[idx_atom], c4[idx_atom], c5[idx_atom] replaced
Override(rows, idx, T, friction, masses, ratio, boost) ==
    [rows EXCEPT ![idx] = SigmaSq(LocalT(T, ratio, boost), friction, masses[idx])]

\* lines 186-187: c1 and c2 depend on the timestep and the friction only
ScalarCoefs(friction) == [c1 |-> <<"c1", friction>>, c2 |-> <<"c2", friction>>]

\* the dispersions get_forces_temp may report at the designated atom
Dispersions == 0..6

\* the runs: mode, baseline, bath and atoms
HeatRuns ==
    UNION { { [al_type |-> m, avg |-> avg, std |-> std, T |-> 1,
               friction |-> fr, boost |-> 3, natoms |-> n, idx_atom |-> idx,
               masses |-> ms] :
                m \in HeatModes \cup {"force"},
                avg \in {1, 2}, std \in {1, 2}, fr \in {1, 2},
                idx \in 1..n, ms \in [1..n -> {1, 2}] } :
            n \in 1..MaxAtoms }

\* the steps of one run that are followed
HeatSteps == 2

InitHeat ==
    /\ LoopIdle
    /\ prob = NoProb /\ eu = NoEval
    /\ gf = Idle /\ kick = Idle /\ un = Idle /\ mpi = Idle /\ wr = Idle
    /\ cp = Idle /\ run = Idle
    /\ \E r \in HeatRuns : heat = [pc |-> "loop", r |-> r, steps |-> <<>>]

\* lines 185-213 of one step in a mode that binds temp_ratio
HeatStep ==
    /\ heat.pc = "loop"
    /\ heat.r.al_type \in HeatModes
    /\ Len(heat.steps) < HeatSteps
    /\ \E d \in Dispersions :
          LET r     == heat.r
              ratio == temp_ratio(d, r.avg, r.std)
              bath  == BathRows(r.T, r.friction, r.masses)
              rows  == Override(bath, r.idx_atom, r.T, r.friction, r.masses,
                                ratio, r.boost)
          IN  heat' = [heat EXCEPT !.steps = Append(@,
                         [d |-> d, temp_ratio |-> ratio,
                          c1 |-> ScalarCoefs(r.friction).c1,
                          c2 |-> ScalarCoefs(r.friction).c2,
                          c3 |-> rows, c4 |-> rows, c5 |-> rows])]
    /\ UNCHANGED <<loopVars, prob, eu, gf, kick, un, mpi, wr, cp, run>>

\* line 205 in any other mode: temp_ratio is read before it is bound
HeatUnbound ==
    /\ heat.pc = "loop"
    /\ heat.r.al_type \notin HeatModes
    /\ heat' = [heat EXCEPT !.pc = "crashed"]
    /\ UNCHANGED <<loopVars, prob, eu, gf, kick, un, mpi, wr, cp, run>>

NextHeat ==
    \/ HeatStep
    \/ HeatUnbound

SpecHeat == InitHeat /\ [][NextHeat]_vars

(***************************************************************************)
(* The random kicks of a step and their centre-of-mass correction          *)
(* (lib_cont_nvtlangevin_temp.py 237-243)                                  *)
(*                                                                         *)
(* rnd_pos and rnd_vel before the correction are vectors of integers; a    *)
(* corrected component is an exact fraction.                               *)
(***************************************************************************)
\* the kicks c5 * eta and c3 * xi - c4 * eta of one atom
KickSet == { <<1, 0, 0>>, <<-1, 2, 0>>, <<0, 0, -3>> }

\* line 242: rnd_pos.sum(axis=0), component c
PosSum(pos, natoms, c) == SumTo([i \in 0..(natoms - 1) |-> pos[i + 1][c]], natoms)

\* line 243: (rnd_vel * masses).sum(axis=0), component c
MomSum(vel, masses, natoms, c) ==
    SumTo([i \in 0..(natoms - 1) |-> vel[i + 1][c] * masses[i + 1]], natoms)

\* line 242: rnd_pos -= rnd_pos.sum(axis=0) / natoms
FixPos(pos, natoms) ==
    [i \in 1..natoms |->
        [c \in Comps |-> [num |-> natoms * pos[i][c] - PosSum(pos, natoms, c),
                          den |-> natoms]]]

\* mutant of FixVel: the unweighted mean velocity kick is removed
FixVel_unweighted(vel, masses, natoms) ==
    [i \in 1..natoms |->
        [c \in Comps |->
            [num |-> natoms * vel[i][c]
                     - SumTo([j \in 0..(natoms - 1) |-> vel[j + 1][c]], natoms),
             den |-> natoms]]]

\* line 243: rnd_vel -= (rnd_vel * masses).sum(axis=0) / (masses * natoms)
FixVel(vel, masses, natoms) ==
    [i \in 1..natoms |->
        [c \in Comps |->
            [num |-> masses[i] * natoms * vel[i][c]
                     - MomSum(vel, masses, natoms, c),
             den |-> masses[i] * natoms]]]

\* an uncorrected kick as a fraction
Whole(v) == [c \in Comps |-> [num |-> v[c], den |-> 1]]

\* the steps: atoms, masses, the two kick tensors and the fix_com flag
KickRuns ==
    UNION { { [natoms |-> n, masses |-> ms, rnd_pos |-> p, rnd_vel |-> v,
               fix_com |-> f] :
                ms \in [1..n -> {1, 2}], p \in [1..n -> KickSet],
                v \in [1..n -> KickSet], f \in BOOLEAN } :
            n \in 1..MaxAtoms }

InitKick ==
    /\ LoopIdle
    /\ prob = NoProb /\ eu = NoEval
    /\ gf = Idle /\ heat = Idle /\ un = Idle /\ mpi = Idle /\ wr = Idle
    /\ cp = Idle /\ run = Idle
    /\ \E r \in KickRuns : kick = [pc |-> "drawn", r |-> r]

\* lines 241-243 with fix_com set
KickFix ==
    /\ kick.pc = "drawn"
    /\ kick.r.fix_com
    /\ kick' = [pc |-> "kicked", r |-> kick.r,
                rnd_pos |-> FixPos(kick.r.rnd_pos, kick.r.natoms),
                rnd_vel |-> FixVel(kick.r.rnd_vel, kick.r.masses, kick.r.natoms)]
    /\ UNCHANGED <<loopVars, prob, eu, gf, heat, un, mpi, wr, cp, run>>

\* lines 237-238 with fix_com clear: the kicks are used as drawn
KickPlain ==
    /\ kick.pc = "drawn"
    /\ ~kick.r.fix_com
    /\ kick' = [pc |-> "kicked", r |-> kick.r,
                rnd_pos |-> [i \in 1..kick.r.natoms |-> Whole(kick.r.rnd_pos[i])],
                rnd_vel |-> [i \in 1..kick.r.natoms |-> Whole(kick.r.rnd_vel[i])]]
    /\ UNCHANGED <<loopVars, prob, eu, gf, heat, un, mpi, wr, cp, run>>

NextKick ==
    \/ KickFix
    \/ KickPlain

SpecKick == InitKick /\ [][NextKick]_vars

(***************************************************************************)
(* get_criteria_uncert called twice with the same uncert_type              *)
(* (lib_criteria.py 565-619)                                               *)
(***************************************************************************)
\* an uncertainty with its baseline mean and deviation, (U - avg) / std whole
Triples == { [U |-> u, avg |-> 2, std |-> sd] : u \in {0, 2, 4}, sd \in {1, 2} }

\* the pairs of calls
UncertCalls ==
    [ uncert_type : {"absolute", "relative", "none"},
      abs1 : Triples, rel1 : Triples, abs2 : Triples, rel2 : Triples ]

\* one call of get_criteria_uncert
SubScore(t, abs, rel) ==
    get_criteria_uncert(t, abs.U, abs.avg, abs.std, rel.U, rel.avg, rel.std)

InitUncert ==
    /\ LoopIdle
    /\ prob = NoProb /\ eu = NoEval
    /\ gf = Idle /\ heat = Idle /\ kick = Idle /\ mpi = Idle /\ wr = Idle
    /\ cp = Idle /\ run = Idle
    /\ \E c \in UncertCalls : un = [pc |-> "called", c |-> c]

\* lines 600-619 with a kind the function knows: both calls return
UncertReturn ==
    /\ un.pc = "called"
    /\ un.c.uncert_type \in {"absolute", "relative"}
    /\ un' = [pc |-> "returned", c |-> un.c,
              r1 |-> SubScore(un.c.uncert_type, un.c.abs1, un.c.rel1),
              r2 |-> SubScore(un.c.uncert_type, un.c.abs2, un.c.rel2)]
    /\ UNCHANGED <<loopVars, prob, eu, gf, heat, kick, mpi, wr, cp, run>>

\* line 619 with any other kind: criteria_Uncert is unbound
UncertRaise ==
    /\ un.pc = "called"
    /\ SubScore(un.c.uncert_type, un.c.abs1, un.c.rel1) = Unbound
    /\ un' = [pc |-> "raised", c |-> un.c]
    /\ UNCHANGED <<loopVars, prob, eu, gf, heat, kick, mpi, wr, cp, run>>

NextUncert ==
    \/ UncertReturn
    \/ UncertRaise

SpecUncert == InitUncert /\ [][NextUncert]_vars

(***************************************************************************)
(* eval_uncert_E / eval_uncert_F on several ranks                          *)
(* (lib_criteria.py 145-175, 210-242)                                      *)
(*                                                                         *)
(* Every rank runs the double loop over its own list of predictors, the    *)
(* lists are exchanged by allgather, and the statistics are taken from the *)
(* flattened gathered list. A predictor is named by its index in the       *)
(* ensemble, index_nmodel * nstep + index_nstep.                           *)
(***************************************************************************)
\* the list of predictors a rank holds: the predictors of the indices it
\* owns, in increasing order (the list is built by the caller)
LocalCalculators(nmodel, nstep, size, rank) ==
    LET owned == OwnedIndices(nmodel, nstep, size, rank)
    IN  [z \in 0..(Cardinality(owned) - 1) |->
            CHOOSE i \in owned : Cardinality({k \in owned : k < i}) = z]

\* lines 156-162, 221-227: the loop of one rank; zndex counts the indices
\* the rank owns and calculator[zndex] is evaluated for each
RankLoop(nmodel, nstep, size, rank, E) ==
    LET calculator == LocalCalculators(nmodel, nstep, size, rank)
        owned      == OwnedIndices(nmodel, nstep, size, rank)
    IN  [z \in 1..Cardinality(owned) |->
            [pred |-> calculator[z - 1], E |-> E[calculator[z - 1]]]]

RECURSIVE Flatten(_, _)
\* lines 168-173, 234-238: [i for items in gathered for i in items], the
\* lists of ranks 0 .. size-1 one after the other
Flatten(parts, size) ==
    IF size = 0 THEN <<>> ELSE Flatten(parts, size - 1) \o parts[size - 1]

\* lines 168-169: np.average of the flattened list, as sum over count
Average(list) ==
    [num |-> SumTo([i \in 0..(Len(list) - 1) |-> list[i + 1].E], Len(list)),
     den |-> Len(list)]

\* the runs: ensemble shape, number of ranks, energy of every predictor
MpiRuns ==
    UNION { [nmodel : {nm}, nstep : {ns}, size : 1..MaxRanks,
             E : [0..(nm * ns - 1) -> {1, 2}]] :
            nm \in 1..MaxModel, ns \in 1..MaxNstep }

InitMPI ==
    /\ LoopIdle
    /\ prob = NoProb /\ eu = NoEval
    /\ gf = Idle /\ heat = Idle /\ kick = Idle /\ un = Idle /\ wr = Idle
    /\ cp = Idle /\ run = Idle
    /\ \E r \in MpiRuns :
          mpi = [pc |-> "eval", r |-> r,
                 part |-> [k \in 0..(r.size - 1) |-> <<>>],
                 arrived |-> {}, gathered |-> <<>>, avg |-> NoFrac]

\* lines 156-162: rank k finishes its loop and enters allgather
RankEval(k) ==
    /\ mpi.pc = "eval"
    /\ k \in 0..(mpi.r.size - 1)
    /\ k \notin mpi.arrived
    /\ mpi' = [mpi EXCEPT
                  !.part[k] = RankLoop(mpi.r.nmodel, mpi.r.nstep, mpi.r.size,
                                       k, mpi.r.E),
                  !.arrived = @ \cup {k}]
    /\ UNCHANGED <<loopVars, prob, eu, gf, heat, kick, un, wr, cp, run>>

\* lines 163-164: allgather completes once every rank has entered it
Allgather ==
    /\ mpi.pc = "eval"
    /\ mpi.arrived = 0..(mpi.r.size - 1)
    /\ mpi' = [mpi EXCEPT !.pc = "gathered",
                          !.gathered = Flatten(mpi.part, mpi.r.size)]
    /\ UNCHANGED <<loopVars, prob, eu, gf, heat, kick, un, wr, cp, run>>

\* lines 168-173: the statistics of the flattened gathered list
Aggregate ==
    /\ mpi.pc = "gathered"
    /\ mpi' = [mpi EXCEPT !.pc = "aggregated", !.avg = Average(mpi.gathered)]
    /\ UNCHANGED <<loopVars, prob, eu, gf, heat, kick, un, wr, cp, run>>

NextMPI ==
    \/ \E k \in 0..(MaxRanks - 1) : RankEval(k)
    \/ Allgather
    \/ Aggregate

SpecMPI == InitMPI /\ [][NextMPI]_vars

(***************************************************************************)
(* The processes that write the output files                               *)
(* (lib_progress.py 101-172, lib_cont_nvtlangevin_temp.py 283-339)         *)
(*                                                                         *)
(* Every process of the run calls check_progress and then the stepping     *)
(* loop. The trajectory files are written through ase's TrajectoryWriter,  *)
(* whose default master is process 0; the log and the uncertainty table    *)
(* are written with open(..., 'a').                                        *)
(***************************************************************************)
Files == {"rolling", "accepted", "log", "table"}

\* lib_progress.py 106, 164: the header of the table is written by rank 0
HeaderWriters(k) == IF k = 0 THEN {k} ELSE {}

\* lib_cont_nvtlangevin_temp.py 286, 339: TrajectoryWriter.write, which
\* writes on the master process only
TrajWriters(k) == IF k = 0 THEN {k} ELSE {}

\* lib_cont_nvtlangevin_temp.py 291-337: open(..., 'a') and write, with no
\* test of the rank
AppendWriters(k) == {k}

InitWriters ==
    /\ LoopIdle
    /\ prob = NoProb /\ eu = NoEval
    /\ gf = Idle /\ heat = Idle /\ kick = Idle /\ un = Idle /\ mpi = Idle
    /\ cp = Idle /\ run = Idle
    /\ \E size \in 1..MaxRanks :
          wr = [pc |-> "run", size |-> size,
                at |-> [k \in 0..(size - 1) |-> "progress"],
                appends |-> [k \in 0..(size - 1) |-> 0],
                writers |-> [f \in Files |-> {}],
                table |-> <<>>]

\* lib_progress.py 96-172 on rank k, the table missing or empty
CheckProgress(k) ==
    /\ wr.pc = "run"
    /\ k \in 0..(wr.size - 1)
    /\ wr.at[k] = "progress"
    /\ wr' = [wr EXCEPT
                 !.at[k] = "loop",
                 !.writers["table"] = @ \cup HeaderWriters(k),
                 !.table = IF k = 0 THEN Append(@, "header") ELSE @]
    /\ UNCHANGED <<loopVars, prob, eu, gf, heat, kick, un, mpi, cp, run>>

\* lib_cont_nvtlangevin_temp.py 271-339 on rank k: one logging step
WriteStep(k) ==
    /\ wr.pc = "run"
    /\ k \in 0..(wr.size - 1)
    /\ wr.at[k] = "loop"
    /\ wr.appends[k] < MaxAppends
    /\ \E tag \in {"Accepted", "Vetoed"} :
          wr' = [wr EXCEPT
                    !.appends[k] = @ + 1,
                    !.writers["accepted"] =
                        IF tag = "Accepted" THEN @ \cup TrajWriters(k) ELSE @,
                    !.writers["table"] = @ \cup AppendWriters(k),
                    !.writers["log"] = @ \cup AppendWriters(k),
                    !.writers["rolling"] = @ \cup TrajWriters(k),
                    !.table = Append(@, k)]
    /\ UNCHANGED <<loopVars, prob, eu, gf, heat, kick, un, mpi, cp, run>>

NextWriters ==
    \/ \E k \in 0..(MaxRanks - 1) : CheckProgress(k)
    \/ \E k \in 0..(MaxRanks - 1) : WriteStep(k)

SpecWriters == InitWriters /\ [][NextWriters]_vars

(***************************************************************************)
(* check_progress (lib_progress.py 13-175)                                 *)
(*                                                                         *)
(* The files are read when the loop reaches them: the uncertainty table of *)
(* the current index, the reference calculations and the deployed models   *)
(* of the following index. inputs.index only rises, so every file is read  *)
(* at most once in a call. result.txt is taken to exist whenever a table   *)
(* has rows (the stepping loop that wrote them read it), and the test      *)
(* error reports get_testerror / get_result are left out.                  *)
(***************************************************************************)
\* the Counting column of the last row of a table (0 for no row)
LastCounting_first(t) == IF Len(t) = 0 THEN 0 ELSE t[1].Counting

\* line 118: np.array(uncert_data.loc[:, 'Counting'])[-1]
LastCounting(t) == IF Len(t) = 0 THEN 0 ELSE t[Len(t)].Counting

RECURSIVE TablesOf(_)
\* the tables of at most n rows the stepping loop writes for one index
TablesOf(n) ==
    IF n = 0 THEN { <<>> }
    ELSE LET T == TablesOf(n - 1)
         IN  T \cup UNION { { Append(t, Row(LastCounting(t) + 1, "Accepted")),
                              Append(t, Row(LastCounting(t), "Vetoed")) } :
                            t \in { u \in T : Len(u) = n - 1 } }

\* what os.path.exists and pd.read_csv find for the table of one index
FoundTables ==
    { [exists |-> FALSE, rows |-> <<>>] }
        \cup { [exists |-> TRUE, rows |-> t] : t \in TablesOf(MaxRows) }

\* mutant of SamplingDone: the row count is not looked at
SamplingDone_norows(t, inp) == LastCounting(t) >= inp.ntotal

\* line 123: the accepted-count has reached ntotal and, for calc_type
\* 'period' or calc_step 'gen', the table has at least nperiod rows
SamplingDone(t, inp) ==
    /\ LastCounting(t) >= inp.ntotal
    /\ IF inp.calc_type = "period" \/ inp.calc_step = "gen"
       THEN Len(t) >= inp.nperiod
       ELSE TRUE

\* mutant of AllFinished: one finished reference calculation is enough
AllFinished_any(finished, ntotal) == finished >= 1

\* lines 137-140: all(aims_check) over jndex in range(inputs.ntotal)
AllFinished(finished, ntotal) == finished = ntotal

\* mutant of HeaderWrite: every process writes the header
HeaderWrite_all(rank, index, written) ==
    written \cup { [index |-> index, rows |-> <<>>] }

\* lines 106-114, 164-172: the table of the index opened with mode 'w' and
\* the header line written, by the process of rank 0
HeaderWrite(rank, index, written) ==
    IF rank = 0 THEN written \cup { [index |-> index, rows |-> <<>>] }
    ELSE written

ProgressInputs ==
    [ ntotal : 1..MaxTotal,
      nperiod : 1..MaxPeriod,
      calc_type : CalcTypes,
      calc_step : {"cont", "gen"},
      rank : 0..(MaxRanks - 1),
      index : 0..(MaxIdx - 1) ]

\* nothing read yet
NotSeen ==
    [index |-> 0, table |-> [exists |-> FALSE, rows |-> <<>>],
     read_aims |-> FALSE, finished |-> 0, models |-> FALSE]

InitProgress ==
    /\ LoopIdle
    /\ prob = NoProb /\ eu = NoEval
    /\ gf = Idle /\ heat = Idle /\ kick = Idle /\ un = Idle /\ mpi = Idle
    /\ wr = Idle /\ run = Idle
    /\ \E inp \in ProgressInputs :
          cp = [pc |-> "loop", inputs |-> inp, index |-> inp.index,
                MD_index |-> 0, MD_step_index |-> 0, signal |-> 0,
                iterations |-> 0, seen |-> NotSeen, written |-> {}]

\* lines 162-173: no table for the current index
ProgressMissing ==
    /\ cp.pc = "loop"
    /\ cp' = [cp EXCEPT
                 !.pc = "returned",
                 !.iterations = @ + 1,
                 !.seen = [NotSeen EXCEPT !.index = cp.index],
                 !.written = HeaderWrite(cp.inputs.rank, cp.index, @)]
    /\ UNCHANGED <<loopVars, prob, eu, gf, heat, kick, un, mpi, wr, run>>

\* lines 105-115: a table without rows
ProgressEmpty ==
    /\ cp.pc = "loop"
    /\ cp' = [cp EXCEPT
                 !.pc = "returned",
                 !.iterations = @ + 1,
                 !.seen = [NotSeen EXCEPT !.index = cp.index,
                                          !.table.exists = TRUE],
                 !.written = HeaderWrite(cp.inputs.rank, cp.index, @)]
    /\ UNCHANGED <<loopVars, prob, eu, gf, heat, kick, un, mpi, wr, run>>

\* lines 116-123, 160-162: a table with rows whose sampling is not done
ProgressResume ==
    /\ cp.pc = "loop"
    /\ \E f \in FoundTables :
          /\ f.exists /\ Len(f.rows) > 0
          /\ ~SamplingDone(f.rows, cp.inputs)
          /\ cp' = [cp EXCEPT
                       !.pc = "returned",
                       !.iterations = @ + 1,
                       !.seen = [NotSeen EXCEPT !.index = cp.index, !.table = f],
                       !.MD_step_index = Len(f.rows),
                       !.MD_index = LastCounting(f.rows)]
    /\ UNCHANGED <<loopVars, prob, eu, gf, heat, kick, un, mpi, wr, run>>

\* lines 123-159: the sampling is done, a reference calculation of the
\* following index is not finished
ProgressWait ==
    /\ cp.pc = "loop"
    /\ \E f \in FoundTables, fin \in 0..cp.inputs.ntotal :
          /\ f.exists /\ Len(f.rows) > 0
          /\ SamplingDone(f.rows, cp.inputs)
          /\ ~AllFinished(fin, cp.inputs.ntotal)
          /\ cp' = [cp EXCEPT
                       !.pc = "returned",
                       !.iterations = @ + 1,
                       !.seen = [index |-> cp.index, table |-> f,
                                 read_aims |-> TRUE, finished |-> fin,
                                 models |-> FALSE],
                       !.MD_step_index = Len(f.rows),
                       !.signal = 1]
    /\ UNCHANGED <<loopVars, prob, eu, gf, heat, kick, un, mpi, wr, run>>

\* lines 123-154: the sampling is done and the reference calculations are
\* finished; with all models deployed the loop goes on at the next index,
\* otherwise the function returns the next index
ProgressAdvance ==
    /\ cp.pc = "loop"
    /\ cp.index < MaxIdx
    /\ \E f \in FoundTables, fin \in 0..cp.inputs.ntotal, gen \in BOOLEAN :
          /\ f.exists /\ Len(f.rows) > 0
          /\ SamplingDone(f.rows, cp.inputs)
          /\ AllFinished(fin, cp.inputs.ntotal)
          /\ cp' = [cp EXCEPT
                       !.pc = IF gen THEN "loop" ELSE "returned",
                       !.iterations = @ + 1,
                       !.seen = [index |-> cp.index, table |-> f,
                                 read_aims |-> TRUE, finished |-> fin,
                                 models |-> gen],
                       !.MD_step_index = 0,
                       !.index = @ + 1]
    /\ UNCHANGED <<loopVars, prob, eu, gf, heat, kick, un, mpi, wr, run>>

NextProgress ==
    \/ ProgressMissing
    \/ ProgressEmpty
    \/ ProgressResume
    \/ ProgressWait
    \/ ProgressAdvance

SpecProgress == InitProgress /\ [][NextProgress]_vars

(***************************************************************************)
(* A run of the stepping loop across interruptions                         *)
(* (lib_cont_nvtlangevin_temp.py 83-341 with lib_progress.py 96-175)       *)
(*                                                                         *)
(* The run starts with no files. The process may be killed between two     *)
(* iterations; after a kill, and after a normal return, check_progress     *)
(* (calc_step 'cont') reads the table the loop wrote and, unless it finds  *)
(* the sampling done, cont_NVTLangevin_temp is called again with the       *)
(* MD_index and MD_step_index it returned.                                 *)
(***************************************************************************)
\* the arguments of check_progress after the loop
ContInputs ==
    [ntotal |-> inputs.ntotal, nperiod |-> inputs.nperiod,
     calc_type |-> inputs.calc_type, calc_step |-> "cont"]

InitRun ==
    /\ pc = "entry"
    /\ inputs \in InputsSet
    /\ MD_index = 0 /\ MD_index0 = 0 /\ MD_step_index = 0
    /\ tempTraj = 0 /\ logLines = 0 /\ accTraj = 0
    /\ uncertTable = <<>> /\ rows0 = 0
    /\ nsteps = 0 /\ criteria = 0 /\ draw = 0 /\ accept = "--"
    /\ calls = NoCalls
    /\ prob = NoProb /\ eu = NoEval
    /\ gf = Idle /\ heat = Idle /\ kick = Idle /\ un = Idle /\ mpi = Idle
    /\ wr = Idle /\ cp = Idle
    /\ run = [executed |-> 0, restarts |-> 0, left_at |-> 0, after |-> "start"]

\* the process is killed between two iterations of the loop
Interrupt ==
    /\ pc = "loop"
    /\ run.restarts < MaxRestarts
    /\ pc' = "killed"
    /\ UNCHANGED <<inputs, MD_index, MD_step_index, MD_index0, rows0, nsteps,
                   tempTraj, logLines, accTraj, uncertTable, criteria, draw,
                   accept, calls, prob, eu, gf, heat, kick, un, mpi, wr, cp, run>>

\* lib_progress.py 105-123, 160-162: check_progress finds the table without
\* rows or the sampling not done and returns the point to resume from;
\* cont_NVTLangevin_temp is called with it
CheckResume ==
    /\ pc \in {"killed", "done"}
    /\ run.restarts < MaxRestarts
    /\ ~(Len(uncertTable) > 0 /\ SamplingDone(uncertTable, ContInputs))
    /\ cp' = [pc |-> "returned", after |-> pc, class |-> "resume",
              MD_index |-> LastCounting(uncertTable),
              MD_step_index |-> Len(uncertTable), signal |-> 0]
    /\ run' = [executed |-> run.executed + nsteps,
               restarts |-> run.restarts + 1,
               left_at |-> MD_step_index, after |-> pc]
    /\ pc' = "entry"
    /\ MD_index' = LastCounting(uncertTable)
    /\ MD_index0' = LastCounting(uncertTable)
    /\ MD_step_index' = Len(uncertTable)
    /\ rows0' = Len(uncertTable)
    /\ nsteps' = 0
    /\ calls' = NoCalls
    /\ UNCHANGED <<inputs, tempTraj, logLines, accTraj, uncertTable, criteria,
                   draw, accept, prob, eu, gf, heat, kick, un, mpi, wr>>

\* lib_progress.py 116-159: check_progress finds the sampling of the index
\* done and turns to the following index
CheckComplete ==
    /\ pc \in {"killed", "done"}
    /\ Len(uncertTable) > 0
    /\ SamplingDone(uncertTable, ContInputs)
    /\ cp' = [pc |-> "returned", after |-> pc, class |-> "complete",
              MD_index |-> 0, MD_step_index |-> Len(uncertTable), signal |-> 0]
    /\ pc' = "complete"
    /\ UNCHANGED <<inputs, MD_index, MD_step_index, MD_index0, rows0, nsteps,
                   tempTraj, logLines, accTraj, uncertTable, criteria, draw,
                   accept, calls, prob, eu, gf, heat, kick, un, mpi, wr, run>>

NextRun ==
    \/ Enter
    \/ StepUnbound
    \/ StepPlain
    \/ StepExit
    \/ StepLog
    \/ Return
    \/ Interrupt
    \/ CheckResume
    \/ CheckComplete

SpecRun == InitRun /\ [][NextRun]_vars

(***************************************************************************)
(* Claims about the stepping loop (specification Spec).                    *)
(***************************************************************************)
Max2(a, b) == IF a >= b THEN a ELSE b

\* a completed iteration on the logging cadence
LogStepTaken ==
    pc = "loop" /\ IsLogStep /\ MD_step_index' = MD_step_index + 1

C2_StepIndexPlusOne ==
    [][(pc = "loop" /\ pc' = "loop") => MD_step_index' = MD_step_index + 1]_vars

\* C2 witness: after a non-logging step and a vetoed logging step
C2_Witness ==
    /\ pc = "loop"
    /\ accept = "Vetoed"
    /\ inputs.loginterval = 2
    /\ nsteps = 2
    /\ MD_step_index = 2

C4_AcceptOrVeto ==
    [][LogStepTaken =>
         /\ draw' < criteria' =>
               (MD_index' = MD_index + 1 /\ accTraj' = accTraj + 1)
         /\ ~(draw' < criteria') =>
               (MD_index' = MD_index /\ accTraj' = accTraj)]_vars

\* C4 witness: the first logging step of a run accepted
C4_Witness ==
    /\ accept = "Accepted"
    /\ draw < criteria
    /\ MD_index = MD_index0 + 1
    /\ accTraj = MD_index0 + 1

\* C5: at a logging step exactly one record is appended to the rolling
\* trajectory and one line to the rolling log, accepted or vetoed.
C5_RollingAlways ==
    [][LogStepTaken =>
         (tempTraj' = tempTraj + 1 /\ logLines' = logLines + 1)]_vars

\* C5 witness: a fresh run whose first logging step was vetoed holds the
\* initial record and the vetoed one
C5_Witness ==
    /\ accept = "Vetoed"
    /\ nsteps = 1
    /\ MD_step_index = 1
    /\ tempTraj = 2
    /\ logLines = 2

\* rows tagged Accepted among the rows of this run up to row i
AcceptedUpTo(i) ==
    Cardinality({j \in (rows0 + 1)..i : uncertTable[j].Acceptance = "Accepted"})

\* C6: every row this run wrote is tagged Accepted or Vetoed and its Counting
\* is the starting accepted-count plus the number of Accepted rows written so
\* far in the run, that row included.
C6_CountingCumulative ==
    \A i \in (rows0 + 1)..Len(uncertTable) :
        /\ uncertTable[i].Acceptance \in {"Accepted", "Vetoed"}
        /\ uncertTable[i].Counting = MD_index0 + AcceptedUpTo(i)

\* C6 witness: a run appending to an older table wrote a Vetoed row and then
\* an Accepted row
C6_Witness ==
    /\ rows0 > 0
    /\ Len(uncertTable) = rows0 + 2
    /\ uncertTable[rows0 + 1].Acceptance = "Vetoed"
    /\ uncertTable[rows0 + 2].Acceptance = "Accepted"
    /\ MD_index0 > 0

(***************************************************************************)
(* Claims about get_criteria_prob (specification SpecProb).                *)
(***************************************************************************)
InUnit(q) == q.den > 0 /\ 0 <= q.num /\ q.num <= q.den

\* C7: for every mode tag, the value get_criteria_prob returns lies in
\* [0,1], and the canonical term it combines is at most 1 whatever the total
\* energy.
C7_ProbInUnit ==
    prob.pc = "returned" =>
        /\ InUnit(prob.ret)
        /\ InUnit(prob.criteria_Prob)

\* C7 witness: a total energy below the calibration average (canonical term
\* 25 before the cap) in mode 'energy' with a sub-score of 0.99
C7_Witness ==
    /\ prob.pc = "returned"
    /\ prob.a.al_type = "energy"
    /\ prob.a.Etot_step = -2
    /\ prob.a.criteria_Etot_step_std = 1
    /\ prob.criteria_Uncert_E = 990
    /\ prob.ret.num * 1000 = 990 * prob.ret.den

\* C8: in mode 'force_max' the force sub-score is 1 when UncertAbs_F is
\* strictly between 0.05 and 0.20 and 0 otherwise, whatever the baseline.
C8_ForceMaxBand ==
    (prob.pc = "returned" /\ prob.a.al_type = "force_max") =>
        prob.criteria_Uncert_F =
            IF 5 < prob.a.UncertAbs_F /\ prob.a.UncertAbs_F < 20
            THEN 1000 ELSE 0

\* C8 witness: UncertAbs_F = 0.05, on the lower bound, scores 0 although it
\* equals the baseline mean
C8_Witness ==
    /\ prob.pc = "returned"
    /\ prob.a.al_type = "force_max"
    /\ prob.a.UncertAbs_F = 5
    /\ prob.a.criteria_UncertAbs_F_avg = 5
    /\ prob.criteria_Uncert_F = 0

\* C9: the returned value is 1 - (1-P_E)(1-P_F)P_canonical in mode 'EorFmax'
\* and P_E P_F P_canonical in every other mode, where P_F is 1 in 'energy'
\* and P_E is 1 in 'force' and 'force_max'.
C9_Combination ==
    prob.pc = "returned" =>
        LET E == prob.criteria_Uncert_E
            F == prob.criteria_Uncert_F
            P == prob.criteria_Prob
        IN  /\ prob.ret.den = 1000 * 1000 * P.den
            /\ prob.a.al_type = "EorFmax" =>
                  prob.ret.num =
                      1000 * 1000 * P.den - (1000 - E) * (1000 - F) * P.num
            /\ prob.a.al_type # "EorFmax" =>
                  prob.ret.num = E * F * P.num
            /\ prob.a.al_type = "energy" => F = 1000
            /\ prob.a.al_type \in {"force", "force_max"} => E = 1000

\* C9 witness: mode 'EandFmax' with P_E = 0.2, P_F = 0 and P_canonical = 1/5
\* returns the product, 0
C9_Witness ==
    /\ prob.pc = "returned"
    /\ prob.a.al_type = "EandFmax"
    /\ prob.criteria_Uncert_E = 200
    /\ prob.criteria_Uncert_F = 0
    /\ prob.criteria_Prob = [num |-> 1, den |-> 5]
    /\ prob.ret.num = 0

(***************************************************************************)
(* Claims about eval_uncert (specification SpecEval).                      *)
(***************************************************************************)
\* C10: eval_uncert called with a tag other than 'energy', 'force',
\* 'force_max', 'EandFmax', 'EorFmax' ends the process with a diagnostic,
\* returns no uncertainty record and evaluates no predictor.
C10_UnknownModeExits ==
    (/\ eu.pc # "called"
     /\ eu.c.al_type \notin {"energy", "force", "force_max", "EandFmax", "EorFmax"})
        => /\ eu.pc = "exited"
           /\ eu.diag # ""
           /\ eu.ret = NoResult
           /\ eu.evalsE = 0
           /\ eu.evalsF = 0

\* C10 witness: the call with 'energy_max' on an ensemble of four predictors
\* has ended
C10_Witness ==
    /\ eu.pc = "exited"
    /\ eu.c.al_type = "energy_max"
    /\ eu.c.nmodel * eu.c.nstep = 4
    /\ eu.c.size = 1

\* C11: given an active-learning tag none of its branches names,
\* get_criteria_prob ends the run with a diagnostic and returns no
\* acceptance probability.
C11_UnknownModeNoReturn ==
    (/\ prob.pc # "called"
     /\ prob.a.al_type \notin {"energy", "force", "force_max", "EandFmax", "EorFmax"})
        => prob.pc # "returned"

(***************************************************************************)
(* Claims about get_forces_temp (specification SpecForces).                *)
(***************************************************************************)
\* C12: get_forces_temp fails, and returns no mean and no dispersion,
\* whenever the number of predictors it is given differs from nmodel*nstep.
C12_CountMismatchFails ==
    (/\ gf.pc # "called"
     /\ gf.c.is_list
     /\ gf.c.ncalc # gf.c.nmodel * gf.c.nstep)
        => (gf.pc = "raised" /\ ~gf.ret.returned)

\* |v|^2 for a vector of three integers
Dot3(v) == v[1] * v[1] + v[2] * v[2] + v[3] * v[3]

\* C15: in a force-based mode get_forces_temp returns, for each atom, the
\* mean force over the predictors and the root-mean-square over the
\* predictors of the norm of the deviation from that mean (n^3 times its
\* square is n^2 * sum |F_k|^2 - n * |sum F_k|^2); for the two predictors
\* [[1,0,0]] and [[-1,0,0]] on one atom the mean is [0,0,0] and the
\* dispersion 1.
C15_MeanAndDispersion ==
    (gf.pc = "returned" /\ gf.c.al_type # "energy_max") =>
        LET n == gf.c.nmodel * gf.c.nstep
            F == gf.c.F
        IN  /\ \A a \in 1..gf.c.natoms :
                  LET S == [c \in Comps |->
                              SumTo([k \in 0..(n - 1) |-> F[k][a][c]], n)]
                      Q == SumTo([k \in 0..(n - 1) |-> Dot3(F[k][a])], n)
                      r == gf.ret.step_std[a].under_root
                  IN  /\ \A c \in Comps :
                            /\ gf.ret.force_avg[a][c].num = S[c]
                            /\ gf.ret.force_avg[a][c].den = n
                      /\ r.den = n * n * n
                      /\ r.num = n * n * Q - n * Dot3(S)
            /\ (/\ n = 2 /\ gf.c.natoms = 1
                /\ {F[0][1], F[1][1]} = { <<1, 0, 0>>, <<-1, 0, 0>> })
                  => /\ \A c \in Comps : gf.ret.force_avg[1][c].num = 0
                     /\ gf.ret.step_std[1].under_root.num
                            = gf.ret.step_std[1].under_root.den

\* C15 witness: the two predictors [[1,0,0]] and [[-1,0,0]] on one atom
C15_Witness ==
    /\ gf.pc = "returned"
    /\ gf.c.al_type = "force_max"
    /\ gf.c.nmodel * gf.c.nstep = 2
    /\ gf.c.natoms = 1
    /\ gf.c.F[0][1] = <<1, 0, 0>>
    /\ gf.c.F[1][1] = <<-1, 0, 0>>
    /\ gf.ret.step_std[1].under_root = [num |-> 8, den |-> 8]

(***************************************************************************)
(* Claims about the local heating (specification SpecHeat).                *)
(***************************************************************************)
\* C13: the heating factor of a step is exactly 1 when the dispersion at
\* the designated atom is below the baseline mean, 1 when it equals the
\* baseline mean, otherwise within [0,1], and of two steps the one with
\* the larger dispersion excess never has the larger factor.
C13_HeatingFactor ==
    heat.pc = "loop" =>
        /\ \A i \in 1..Len(heat.steps) :
              LET s == heat.steps[i]
              IN  /\ s.d < heat.r.avg => s.temp_ratio = Scale
                  /\ s.d = heat.r.avg => s.temp_ratio = Scale
                  /\ s.temp_ratio >= 0 /\ s.temp_ratio <= Scale
        /\ \A i, j \in 1..Len(heat.steps) :
              heat.steps[i].d <= heat.steps[j].d
                  => heat.steps[j].temp_ratio <= heat.steps[i].temp_ratio

\* C13 witness: one step below the baseline mean and one well above it
C13_Witness ==
    /\ heat.pc = "loop"
    /\ Len(heat.steps) = 2
    /\ heat.steps[1].d < heat.r.avg
    /\ heat.steps[1].temp_ratio = Scale
    /\ heat.steps[2].d > heat.r.avg
    /\ heat.steps[2].temp_ratio < Scale
    /\ heat.steps[2].temp_ratio > 0

\* C19: the heating override of a step changes only the designated atom's
\* row of c3, c4 and c5; every other row, and c1 and c2, keep the values
\* computed from the bath temperature.
C19_OverrideFrame ==
    heat.pc = "loop" =>
        \A k \in 1..Len(heat.steps) :
            LET s == heat.steps[k]
                r == heat.r
            IN  /\ \A i \in 1..r.natoms :
                      i # r.idx_atom =>
                          /\ s.c3[i] = [num |-> 2 * r.T * Scale * r.friction,
                                        den |-> r.masses[i] * Scale]
                          /\ s.c4[i] = s.c3[i]
                          /\ s.c5[i] = s.c3[i]
                /\ s.c1 = <<"c1", r.friction>>
                /\ s.c2 = <<"c2", r.friction>>

\* C19 witness: a step of a run with two atoms whose designated row was
\* given a local temperature above the bath
C19_Witness ==
    /\ heat.pc = "loop"
    /\ Len(heat.steps) >= 1
    /\ heat.r.natoms >= 2
    /\ heat.r.idx_atom = 1
    /\ heat.r.masses[1] = heat.r.masses[2]
    /\ heat.steps[1].c3[1] # heat.steps[1].c3[2]

(***************************************************************************)
(* Claims about the random kicks (specification SpecKick).                 *)
(***************************************************************************)
RECURSIVE ProdTo(_, _)
\* f[0] * ... * f[n-1]
ProdTo(f, n) == IF n = 0 THEN 1 ELSE f[n - 1] * ProdTo(f, n - 1)

\* the numerator of sum_i w[i] * q[i] over the product of the denominators
WeightedSumNum(q, w, n) ==
    LET D == ProdTo([i \in 0..(n - 1) |-> q[i + 1].den], n)
    IN  SumTo([i \in 0..(n - 1) |-> w[i + 1] * q[i + 1].num * (D \div q[i + 1].den)], n)

\* C14: with fix_com set, after the correction the sum over the atoms of
\* mass times random velocity kick and the unweighted sum of the random
\* position kicks are both the zero vector.
C14_KicksCentred ==
    (kick.pc = "kicked" /\ kick.r.fix_com) =>
        \A c \in Comps :
            /\ WeightedSumNum([i \in 1..kick.r.natoms |-> kick.rnd_vel[i][c]],
                              kick.r.masses, kick.r.natoms) = 0
            /\ WeightedSumNum([i \in 1..kick.r.natoms |-> kick.rnd_pos[i][c]],
                              [i \in 1..kick.r.natoms |-> 1], kick.r.natoms) = 0

\* C14 witness: two atoms of different mass whose drawn kicks had a net
\* momentum and a net displacement
C14_Witness ==
    /\ kick.pc = "kicked"
    /\ kick.r.fix_com
    /\ kick.r.natoms = 2
    /\ kick.r.masses[1] # kick.r.masses[2]
    /\ MomSum(kick.r.rnd_vel, kick.r.masses, 2, 1) # 0
    /\ PosSum(kick.r.rnd_pos, 2, 3) # 0
    /\ kick.rnd_vel[1][1].num # 0

EvaluatedBy(i) ==
    {k \in mpi.arrived : \E z \in 1..Len(mpi.part[k]) : mpi.part[k][z].pred = i}

C18_SingleWriter ==
    \A f \in Files : wr.writers[f] \subseteq {0}

(***************************************************************************)
(* C20 (specification Spec).                                               *)
(***************************************************************************)
\* C20: eval_uncert, get_criteria_prob and the uniform draw each happen
\* exactly once in a step whose (MD_step_index+1) is a multiple of
\* inputs.loginterval and not at all in any other step, none of them ever
\* twice in a step, and MD_index and the uncertainty table change only in
\* such steps.
C20_OncePerLogStep ==
    [][ LET onCadence == (MD_step_index + 1) % inputs.loginterval = 0
            stepped   == pc = "loop" /\ nsteps' = nsteps + 1
        IN  /\ (stepped /\ onCadence /\ pc' = "loop") =>
                  /\ calls'.eval_uncert = calls.eval_uncert + 1
                  /\ calls'.get_criteria_prob = calls.get_criteria_prob + 1
                  /\ calls'.random = calls.random + 1
            /\ ~(stepped /\ onCadence) =>
                  /\ calls' = calls
                  /\ MD_index' = MD_index
                  /\ uncertTable' = uncertTable
            /\ calls'.eval_uncert \in {calls.eval_uncert, calls.eval_uncert + 1}
            /\ calls'.get_criteria_prob - calls.get_criteria_prob
                  \in {0, calls'.eval_uncert - calls.eval_uncert}
            /\ calls'.random - calls.random
                  \in {0, calls'.get_criteria_prob - calls.get_criteria_prob}
      ]_vars

\* C20 witness: four steps at loginterval 2, two of them logging steps
C20_Witness ==
    /\ pc = "loop"
    /\ inputs.loginterval = 2
    /\ nsteps = 4
    /\ calls = [eval_uncert |-> 2, get_criteria_prob |-> 2, random |-> 2]
    /\ Len(uncertTable) = rows0 + 2

(***************************************************************************)
(* Agreement of eval_uncert_F with get_forces_temp (specification          *)
(* SpecForces).                                                            *)
(***************************************************************************)
\* C21: for the same predictor outputs the force dispersion of
\* eval_uncert_F has one value per atom, equal to the per-atom dispersion
\* get_forces_temp returns, and its mean-force norm has one value per atom,
\* the Euclidean norm of that atom's mean force.
C21_PerAtomAgreement ==
    gf.pc = "evaluated" =>
        LET n == gf.c.nmodel * gf.c.nstep
        IN  /\ DOMAIN gf.uncert.F_step_norm_std = 1..gf.c.natoms
            /\ DOMAIN gf.uncert.F_step_norm_avg = 1..gf.c.natoms
            /\ \A a \in 1..gf.c.natoms :
                  /\ gf.uncert.F_step_norm_std[a] = gf.ret.step_std[a]
                  /\ gf.uncert.F_step_norm_avg[a].under_root
                        = [num |-> Dot3([c \in Comps |-> ForceSum(gf.c.F, n, a, c)]),
                           den |-> n * n]

(***************************************************************************)
(* C22, C23 (specification Spec).                                          *)
(***************************************************************************)
\* C22: in every iteration, for every mode eval_uncert accepts ('energy',
\* 'force', 'force_max', 'EandFmax', 'EorFmax'), the heating factor has
\* been assigned before the local temperature is computed from it: the
\* loop never stops on the read of an unassigned factor in such a mode.
C22_FactorAssignedBeforeUse ==
    inputs.al_type \in EvalModes => pc # "crashed"

(***************************************************************************)
(* Claims about check_progress (specification SpecProgress).               *)
(***************************************************************************)
\* the table read in the first iteration has rows and its last Counting is
\* below ntotal
ResumeCase ==
    /\ cp.pc = "returned"
    /\ cp.iterations = 1
    /\ cp.seen.table.exists
    /\ Len(cp.seen.table.rows) > 0
    /\ cp.seen.table.rows[Len(cp.seen.table.rows)].Counting < cp.inputs.ntotal

\* the table read last is missing or has no rows
FreshCase ==
    /\ cp.pc = "returned"
    /\ cp.seen.index = cp.index
    /\ ~cp.seen.table.exists \/ Len(cp.seen.table.rows) = 0

\* what C24 says of the resume case
ResumeResult ==
    /\ cp.MD_index = cp.seen.table.rows[Len(cp.seen.table.rows)].Counting
    /\ cp.MD_step_index = Len(cp.seen.table.rows)
    /\ cp.index = cp.inputs.index
    /\ cp.signal = 0

\* C24 as stated: with a table that has rows and a last Counting below
\* ntotal check_progress returns that Counting as MD_index, the number of
\* rows as MD_step_index, the index unchanged and signal 0; with the table
\* missing or empty it (re)creates it holding only the header and returns
\* MD_index 0 and signal 0.
C24_Original ==
    /\ ResumeCase => ResumeResult
    /\ FreshCase =>
          /\ [index |-> cp.index, rows |-> <<>>] \in cp.written
          /\ cp.MD_index = 0
          /\ cp.signal = 0

\* C24 amended: as stated, except that the table is (re)created by the
\* process of rank 0 only; a process of another rank writes no table.
C24_ResumeOrFresh ==
    /\ ResumeCase => ResumeResult /\ cp.written = {}
    /\ FreshCase =>
          /\ cp.inputs.rank = 0 =>
                cp.written = { [index |-> cp.index, rows |-> <<>>] }
          /\ cp.inputs.rank # 0 => cp.written = {}
          /\ cp.MD_index = 0
          /\ cp.signal = 0

\* C24 witness: a table of two rows with one accepted, short of ntotal = 2
C24_Witness ==
    /\ ResumeCase
    /\ cp.inputs.ntotal = 2
    /\ Len(cp.seen.table.rows) = 2
    /\ cp.MD_index = 1
    /\ cp.MD_step_index = 2

\* C25: when the sampling of the current index is found complete and a
\* reference calculation of the next index is not finished, check_progress
\* returns signal 1 with inputs.index unchanged and writes no table.
C25_WaitForReference ==
    [][ (/\ cp'.iterations = cp.iterations + 1
         /\ cp'.seen.read_aims
         /\ cp'.seen.finished < cp.inputs.ntotal)
            => /\ cp'.pc = "returned"
               /\ cp'.signal = 1
               /\ cp'.index = cp.index
               /\ cp'.written = {}
      ]_vars

\* C25 witness: the wait is reached at the index the call started from
C25_Witness ==
    /\ cp.pc = "returned"
    /\ cp.signal = 1
    /\ cp.seen.read_aims
    /\ cp.seen.finished = 1
    /\ cp.inputs.ntotal = 2
    /\ cp.index = cp.inputs.index

\* C26: inputs.index never decreases; it rises by one only after the table
\* of the index being left shows Counting >= ntotal (and at least nperiod
\* rows for calc_type 'period' or calc_step 'gen') and all ntotal reference
\* calculations of the next index are finished; after an increment the
\* returned MD_index and MD_step_index are 0 unless a later table has rows.
C26_IndexRises ==
    [][ /\ cp'.index >= cp.index
        /\ cp'.index # cp.index =>
              LET t == cp'.seen.table.rows
              IN  /\ cp'.index = cp.index + 1
                  /\ cp'.seen.index = cp.index
                  /\ Len(t) > 0
                  /\ t[Len(t)].Counting >= cp.inputs.ntotal
                  /\ (cp.inputs.calc_type = "period" \/ cp.inputs.calc_step = "gen")
                        => Len(t) >= cp.inputs.nperiod
                  /\ cp'.seen.read_aims
                  /\ cp'.seen.finished = cp.inputs.ntotal
                  /\ cp'.MD_index = 0
                  /\ cp'.MD_step_index = 0
        /\ (/\ cp'.pc = "returned"
            /\ cp'.index > cp.inputs.index
            /\ \/ cp'.seen.index < cp'.index
               \/ Len(cp'.seen.table.rows) = 0)
              => cp'.MD_index = 0 /\ cp'.MD_step_index = 0
      ]_vars

\* C26 witness: two increments, the second in 'period' mode on a table of
\* nperiod = 2 rows
C26_Witness ==
    /\ cp.index = cp.inputs.index + 2
    /\ cp.inputs.calc_type = "period"
    /\ cp.inputs.nperiod = 2
    /\ cp.inputs.ntotal = 1
    /\ Len(cp.seen.table.rows) = 2
    /\ cp.MD_step_index = 0

(***************************************************************************)
(* Claims about a run across restarts (specification SpecRun).             *)
(***************************************************************************)
\* C23: a warm start keeps the step count: when the rolling trajectory
\* exists on entry, the MD_step_index the loop starts from is the number of
\* integration steps executed before the interruption, for every
\* loginterval, and so is not below the MD_step_index the loop was left at.
C23_WarmStartKeepsCount ==
    (/\ pc = "loop" /\ nsteps = 0
     /\ run.restarts > 0 /\ run.after = "killed"
     /\ tempTraj > 0)
        => /\ MD_step_index = run.executed
           /\ MD_step_index >= run.left_at

\* C27: after the loop has returned normally, a following check_progress
\* (calc_step 'cont') on the table the run wrote finds the sampling of the
\* index done, for calc_type 'period' and for the others: it returns no
\* point to resume from at the same index.
C27_DoneAfterReturn ==
    (cp.pc = "returned" /\ cp.after = "done") => cp.class = "complete"

====
